---------------------------- MODULE Spec2Model ----------------------------
(***************************************************************************)
(* Model of the FB Page Bot configuration store (src/utils/safeConfig.js)  *)
(* and of its webhook gateway / event dispatcher (src/index.js).           *)
(*                                                                         *)
(* JavaScript values are tagged records.  The settings file is a sequence  *)
(* of JSON tokens (white space is not represented), so that JSON.parse and *)
(* JSON.stringify are real conversions between text and values.            *)
(***************************************************************************)
EXTENDS Integers, Sequences, FiniteSets, TLC

VARIABLES
    disk,              \* the settings file, its backup, and their permissions
    ret,               \* what the last ConfigStore call did and returned
    config,            \* index.js: let config (module-level snapshot)
    lastRuntimeError,  \* index.js: let lastRuntimeError
    req,               \* what the last HTTP request did, in program order
    pending,           \* handler results that have not settled yet
    shared,            \* safeConfig.js: the module's own template objects
    loop               \* the event loop: route handlers begun, handlers started

vars == <<disk, ret, config, lastRuntimeError, req, pending, shared, loop>>

----------------------------------------------------------------------------
(* JavaScript values *)

Undefined == [t |-> "undefined"]
JNull == [t |-> "null"]
JStr(s) == [t |-> "string", s |-> s]
JNum(n) == [t |-> "number", n |-> n]
JBool(b) == [t |-> "boolean", b |-> b]
\* an array: its elements, and the named (non-index) properties set on it
JArr(a) == [t |-> "array", a |-> a, o |-> <<>>]
\* an object: its own properties, in insertion order
JObj(o) == [t |-> "object", o |-> o]
E(k, v) == [k |-> k, v |-> v]

IsNullish(x) == x.t \in {"undefined", "null"}

\* ToBoolean
Truthy(x) ==
    CASE x.t \in {"undefined", "null"} -> FALSE
      [] x.t = "boolean" -> x.b
      [] x.t = "number" -> x.n # 0
      [] x.t = "string" -> x.s # ""
      [] OTHER -> TRUE

\* typeof x === 'object'
TypeofObject(x) == x.t \in {"object", "array", "null"}

\* Array.isArray(x)
IsArray(x) == x.t = "array"

\* the property names "0", "1", ... of the first elements of an array or string
IdxKeys == <<"0", "1", "2", "3">>

IdxOf(key) ==
    IF \E i \in 1..Len(IdxKeys) : IdxKeys[i] = key
    THEN CHOOSE i \in 1..Len(IdxKeys) : IdxKeys[i] = key
    ELSE 0

\* the characters of the strings that occur as a whole document
StrChars(s) ==
    CASE s = "" -> <<>>
      [] s = "hi" -> <<"h", "i">>
      [] OTHER -> <<s>>

HasEntry(entries, key) == \E i \in 1..Len(entries) : entries[i].k = key

GetEntry(entries, key) ==
    IF HasEntry(entries, key)
    THEN entries[CHOOSE i \in 1..Len(entries) : entries[i].k = key].v
    ELSE Undefined

\* obj[key] = val on a property list: in place when the key exists, else appended
SetEntry(entries, key, val) ==
    IF HasEntry(entries, key)
    THEN [i \in 1..Len(entries) |->
            IF entries[i].k = key THEN E(key, val) ELSE entries[i]]
    ELSE Append(entries, E(key, val))

\* x[key] for a non-nullish x (a nullish x throws: the callers test for it)
Prop(x, key) ==
    CASE x.t = "object" -> GetEntry(x.o, key)
      [] x.t = "array" ->
            IF IdxOf(key) # 0
            THEN (IF IdxOf(key) <= Len(x.a) THEN x.a[IdxOf(key)] ELSE Undefined)
            ELSE GetEntry(x.o, key)
      [] x.t = "string" ->
            IF IdxOf(key) # 0 /\ IdxOf(key) <= Len(StrChars(x.s))
            THEN JStr(StrChars(x.s)[IdxOf(key)])
            ELSE Undefined
      [] OTHER -> Undefined

\* x[key] = val for an object or array x
SetProp(x, key, val) ==
    CASE x.t = "object" -> [x EXCEPT !.o = SetEntry(x.o, key, val)]
      [] x.t = "array" ->
            IF IdxOf(key) # 0 /\ IdxOf(key) <= Len(x.a)
            THEN [x EXCEPT !.a[IdxOf(key)] = val]
            ELSE IF IdxOf(key) # 0 /\ IdxOf(key) = Len(x.a) + 1
            THEN [x EXCEPT !.a = Append(x.a, val)]
            ELSE [x EXCEPT !.o = SetEntry(x.o, key, val)]
      [] OTHER -> x

\* Object.keys(x) for a non-nullish x
ObjectKeys(x) ==
    CASE x.t = "object" -> [i \in 1..Len(x.o) |-> x.o[i].k]
      [] x.t = "array" ->
            SubSeq(IdxKeys, 1, Len(x.a)) \o [i \in 1..Len(x.o) |-> x.o[i].k]
      [] x.t = "string" -> SubSeq(IdxKeys, 1, Len(StrChars(x.s)))
      [] OTHER -> <<>>

----------------------------------------------------------------------------
(* JSON text: a sequence of tokens *)

Punct(c) == [p |-> c, v |-> JNull]
Lit(v) == [p |-> "lit", v |-> v]

IsPunct(tok, c) == tok.p = c
IsLit(tok) == tok.p = "lit"
IsStrLit(tok) == tok.p = "lit" /\ tok.v.t = "string"

RECURSIVE Stringify(_)
RECURSIVE StringifyMembers(_, _)
RECURSIVE StringifyElements(_, _)

\* the members of an object; a property whose value is undefined is left out
StringifyMembers(entries, first) ==
    IF entries = <<>> THEN <<>>
    ELSE IF Head(entries).v.t = "undefined"
    THEN StringifyMembers(Tail(entries), first)
    ELSE (IF first THEN <<>> ELSE <<Punct(",")>>)
         \o <<Lit(JStr(Head(entries).k)), Punct(":")>>
         \o Stringify(Head(entries).v)
         \o StringifyMembers(Tail(entries), FALSE)

\* the elements of an array; an undefined element is written as null
StringifyElements(elems, first) ==
    IF elems = <<>> THEN <<>>
    ELSE (IF first THEN <<>> ELSE <<Punct(",")>>)
         \o (IF Head(elems).t = "undefined"
             THEN <<Lit(JNull)>>
             ELSE Stringify(Head(elems)))
         \o StringifyElements(Tail(elems), FALSE)

\* JSON.stringify(v, null, 2) for a defined, acyclic v
Stringify(v) ==
    CASE v.t = "object" ->
            <<Punct("{")>> \o StringifyMembers(v.o, TRUE) \o <<Punct("}")>>
      [] v.t = "array" ->
            <<Punct("[")>> \o StringifyElements(v.a, TRUE) \o <<Punct("]")>>
      [] OTHER -> <<Lit(v)>>

ParseFail == [ok |-> FALSE, val |-> Undefined, rest |-> <<>>]
ParseOk(v, rest) == [ok |-> TRUE, val |-> v, rest |-> rest]

RECURSIVE ParseValue(_)
RECURSIVE ParseMembers(_, _)
RECURSIVE ParseElements(_, _)

\* string ":" value, then "," and more members, or "}"
ParseMembers(toks, acc) ==
    IF Len(toks) < 3 \/ ~IsStrLit(toks[1]) \/ ~IsPunct(toks[2], ":")
    THEN ParseFail
    ELSE LET r == ParseValue(SubSeq(toks, 3, Len(toks))) IN
         IF ~r.ok \/ r.rest = <<>> THEN ParseFail
         ELSE LET acc2 == SetEntry(acc, toks[1].v.s, r.val) IN
              IF IsPunct(Head(r.rest), "}") THEN ParseOk(JObj(acc2), Tail(r.rest))
              ELSE IF IsPunct(Head(r.rest), ",")
              THEN ParseMembers(Tail(r.rest), acc2)
              ELSE ParseFail

\* value, then "," and more elements, or "]"
ParseElements(toks, acc) ==
    LET r == ParseValue(toks) IN
    IF ~r.ok \/ r.rest = <<>> THEN ParseFail
    ELSE LET acc2 == Append(acc, r.val) IN
         IF IsPunct(Head(r.rest), "]") THEN ParseOk(JArr(acc2), Tail(r.rest))
         ELSE IF IsPunct(Head(r.rest), ",")
         THEN ParseElements(Tail(r.rest), acc2)
         ELSE ParseFail

ParseValue(toks) ==
    IF toks = <<>> THEN ParseFail
    ELSE IF IsLit(Head(toks)) THEN ParseOk(Head(toks).v, Tail(toks))
    ELSE IF IsPunct(Head(toks), "{")
    THEN (IF Len(toks) >= 2 /\ IsPunct(toks[2], "}")
          THEN ParseOk(JObj(<<>>), SubSeq(toks, 3, Len(toks)))
          ELSE ParseMembers(Tail(toks), <<>>))
    ELSE IF IsPunct(Head(toks), "[")
    THEN (IF Len(toks) >= 2 /\ IsPunct(toks[2], "]")
          THEN ParseOk(JArr(<<>>), SubSeq(toks, 3, Len(toks)))
          ELSE ParseElements(Tail(toks), <<>>))
    ELSE ParseFail

\* JSON.parse(text): ok = FALSE is the SyntaxError
JSONParse(text) ==
    LET r == ParseValue(text) IN
    IF r.ok /\ r.rest = <<>> THEN r ELSE ParseFail

----------------------------------------------------------------------------
(* safeConfig.js: the two shared configuration objects *)

minimalTemplate ==
    JObj(<<
        E("app", JObj(<<
            E("name", JStr("FB Page Bot")),
            E("version", JStr("3.0.0")),
            E("author", JStr("IRFAN"))>>)),
        E("facebook", JObj(<<
            E("pageAccessToken", JStr("")),
            E("verifyToken", JStr("xx")),
            E("pageId", JStr("")),
            E("appSecret", JStr(""))>>)),
        E("server", JObj(<<
            E("webhookPath", JStr("/webhook"))>>))>>)

fallbackConfig ==
    JObj(<<
        E("app", JObj(<<
            E("name", JStr("FB Page Bot")),
            E("version", JStr("3.0.0")),
            E("author", JStr("IRFAN"))>>)),
        E("facebook", JObj(<<
            E("pageAccessToken", JStr("")),
            E("verifyToken", JStr("xx")),
            E("pageId", JStr("")),
            E("appSecret", JStr(""))>>)),
        E("bot", JObj(<<
            E("name", JStr("Page Bot")),
            E("prefix", JStr("/")),
            E("timezone", JStr("UTC")),
            E("autoRestart", JBool(FALSE)),
            E("maxRetries", JNum(3)),
            E("cooldown", JNum(500))>>)),
        E("logging", JObj(<<
            E("level", JStr("info")),
            E("retentionDays", JNum(7)),
            E("logToFile", JBool(FALSE)),
            E("logToConsole", JBool(TRUE))>>)),
        E("security", JObj(<<
            E("adminUIDs", JArr(<<>>)),
            E("allowedDomains", JArr(<<JStr("*")>>)),
            E("rateLimit", JObj(<<
                E("windowMs", JNum(900000)),
                E("max", JNum(100))>>))>>)),
        E("features", JObj(<<
            E("enableBroadcast", JBool(FALSE)),
            E("enableAnalytics", JBool(FALSE)),
            E("enableAutoReplies", JBool(TRUE)),
            E("enableScheduledPosts", JBool(FALSE)),
            E("enableMultiLanguage", JBool(FALSE)),
            E("enableWebDashboard", JBool(TRUE))>>)),
        E("pluginDefaults", JObj(<<
            E("autoInstallDeps", JBool(FALSE)),
            E("hotReload", JBool(FALSE)),
            E("maxExecutionTime", JNum(5000)),
            E("memoryLimitMB", JNum(50))>>)),
        E("server", JObj(<<
            E("port", JNum(3000)),
            E("host", JStr("0.0.0.0")),
            E("webhookPath", JStr("/webhook")),
            E("enableHealthCheck", JBool(TRUE)),
            E("enableMetrics", JBool(TRUE))>>))>>)

----------------------------------------------------------------------------
(* safeConfig.js: the operations, as functions of the disk *)

\* JSON.stringify(minimalTemplate, null, 2)
templateText == Stringify(minimalTemplate)

\* JSON.parse(JSON.stringify(fallbackConfig))
fallbackClone == JSONParse(Stringify(fallbackConfig)).val

NoFile == [exists |-> FALSE, text |-> <<>>]
FileOf(text) == [exists |-> TRUE, text |-> text]

\* what an operation did besides returning: the disk it leaves, the files it
\* wrote (in order) and the warnings it logged (in order)
Eff(d, writes, warns) == [disk |-> d, writes |-> writes, warns |-> warns]

RECURSIVE MergeDeep(_, _)
RECURSIVE MergeKeys(_, _, _)

\* the body of mergeDeep's loop, for the keys not yet visited
MergeKeys(target, source, keys) ==
    IF keys = <<>> THEN target
    ELSE LET key == Head(keys)
             sv == Prop(source, key)
             tv == Prop(target, key)
             t1 == IF Truthy(sv) /\ TypeofObject(sv) /\ ~IsArray(sv)
                   THEN SetProp(target, key,
                            MergeDeep(IF ~Truthy(tv) \/ ~TypeofObject(tv)
                                      THEN JObj(<<>>)
                                      ELSE tv,
                                      sv))
                   ELSE SetProp(target, key, sv)
         IN  MergeKeys(t1, source, Tail(keys))

\* mergeDeep(target, source) for a non-nullish source (Object.keys of a nullish
\* source throws: GetConfig tests for it)
MergeDeep(target, source) == MergeKeys(target, source, ObjectKeys(source))

\* an ensureConfigFile that writes the template without looking for the file
ensureConfigFileAlways(d) ==
    IF d.canWrite
    THEN Eff([d EXCEPT !.file = FileOf(templateText), !.canRead = TRUE],
             <<"config">>, <<>>)
    ELSE Eff(d, <<>>, <<"Failed to create default config file">>)

\* fs.existsSync, then fs.writeFileSync inside try/catch
ensureConfigFile(d) ==
    IF ~d.file.exists
    THEN IF d.canWrite
         THEN Eff([d EXCEPT !.file = FileOf(templateText),
                            !.canRead = TRUE],
                  <<"config">>, <<>>)
         ELSE Eff(d, <<>>, <<"Failed to create default config file">>)
    ELSE Eff(d, <<>>, <<>>)

\* a reordering of the catch (parseErr) block: the settings file is reset
\* before it is copied to the backup
quarantineAfterReset(d1, e) ==
    LET readFailed == <<"Failed to read config.json">>
        invalid == <<"Invalid JSON in config.json">>
    IN  IF ~d1.canWrite
        THEN [data |-> minimalTemplate,
              eff |-> Eff(d1, e.writes, e.warns \o readFailed)]
        ELSE LET d2 == [d1 EXCEPT !.file = FileOf(templateText)] IN
             IF ~d2.canWriteBak
             THEN [data |-> minimalTemplate,
                   eff |-> Eff(d2, e.writes \o <<"config">>,
                               e.warns \o invalid \o readFailed)]
             ELSE [data |-> minimalTemplate,
                   eff |-> Eff([d2 EXCEPT !.bak = FileOf(d2.file.text)],
                               e.writes \o <<"backup", "config">>,
                               e.warns \o invalid)]

\* loadConfigRaw's catch (parseErr) block, on disk d1 whose settings file does
\* not parse, after the effects e of ensureConfigFile: the backup is written,
\* then the settings file is reset; a failing write leaves the block for the
\* outer catch
quarantine(d1, e) ==
    LET readFailed == <<"Failed to read config.json">>
        invalid == <<"Invalid JSON in config.json">>
    IN  IF ~d1.canWriteBak
        THEN [data |-> minimalTemplate,
              eff |-> Eff(d1, e.writes, e.warns \o readFailed)]
        ELSE LET d2 == [d1 EXCEPT !.bak = FileOf(d1.file.text)] IN
             IF ~d2.canWrite
             THEN [data |-> minimalTemplate,
                   eff |-> Eff(d2, e.writes \o <<"backup">>,
                               e.warns \o invalid \o readFailed)]
             ELSE [data |-> minimalTemplate,
                   eff |-> Eff([d2 EXCEPT !.file = FileOf(templateText)],
                               e.writes \o <<"backup", "config">>,
                               e.warns \o invalid)]

\* loadConfigRaw(): the data it returns and what it did
loadConfigRaw(d) ==
    LET e == ensureConfigFile(d)
        d1 == e.disk
        readFailed == <<"Failed to read config.json">>
    IN  IF ~(d1.file.exists /\ d1.canRead)
        THEN [data |-> minimalTemplate,
              eff |-> Eff(d1, e.writes, e.warns \o readFailed)]
        ELSE LET parsed == JSONParse(d1.file.text) IN
             IF parsed.ok
             THEN [data |-> parsed.val, eff |-> Eff(d1, e.writes, e.warns)]
             ELSE quarantine(d1, e)

\* what a call returns to its caller: a value, or an exception
Returned(op, val, missing, eff) ==
    [op |-> op, thrown |-> FALSE, val |-> val, missing |-> missing, eff |-> eff]
Thrown(op, eff) ==
    [op |-> op, thrown |-> TRUE, val |-> Undefined, missing |-> <<>>, eff |-> eff]

getConfig(d) ==
    LET raw == loadConfigRaw(d)
        merged == fallbackClone
    IN  IF IsNullish(raw.data)
        THEN Thrown("getConfig", raw.eff)
        ELSE Returned("getConfig", MergeDeep(merged, raw.data), <<>>, raw.eff)

RECURSIVE check(_, _, _, _)

\* getMissingConfigKeys' helper, for the template keys not yet visited and a
\* non-nullish obj; the paths it pushes, in order
check(template, obj, prefix, keys) ==
    IF keys = <<>> THEN <<>>
    ELSE LET key == Head(keys)
             pathKey == IF prefix # "" THEN prefix \o "." \o key ELSE key
             tv == Prop(template, key)
             ov == Prop(obj, key)
             val == IF Truthy(obj) THEN ov ELSE obj
             here == IF tv.t = "object"
                     THEN check(tv, IF Truthy(ov) THEN ov ELSE JObj(<<>>),
                                pathKey, ObjectKeys(tv))
                     ELSE IF val = JStr("") \/ val.t = "null" \/ val.t = "undefined"
                     THEN <<pathKey>>
                     ELSE <<>>
         IN  here \o check(template, obj, prefix, Tail(keys))

getMissingConfigKeys(d) ==
    LET raw == loadConfigRaw(d) IN
    IF IsNullish(raw.data)
    THEN Thrown("getMissingConfigKeys", raw.eff)
    ELSE Returned("getMissingConfigKeys", Undefined,
                  check(minimalTemplate, raw.data, "",
                        ObjectKeys(minimalTemplate)),
                  raw.eff)

\* a value JSON.stringify throws on (a cyclic structure)
Circular == [t |-> "circular"]

saveConfig(d, c) ==
    IF c.t = "circular" \/ c.t = "undefined" \/ ~d.canWrite
    THEN Returned("saveConfig", Undefined, <<>>,
                  Eff(d, <<>>, <<"Failed to save config.json">>))
    ELSE Returned("saveConfig", Undefined, <<>>,
                  Eff([d EXCEPT !.file = FileOf(Stringify(c)),
                                !.canRead = IF d.file.exists THEN d.canRead ELSE TRUE],
                      <<"config">>, <<>>))

----------------------------------------------------------------------------
(* The settings files the checks range over *)

\* texts JSON.parse rejects: an empty file, an unclosed object, a cut-off member
InvalidTexts ==
    { <<>>,
      <<Punct("{")>>,
      <<Punct("{"), Lit(JStr("app")), Punct(":")>> }

DocFilled ==
    JObj(<<
        E("app", JObj(<<
            E("name", JStr("My Bot")),
            E("version", JStr("1.0.0")),
            E("author", JStr("me"))>>)),
        E("facebook", JObj(<<
            E("pageAccessToken", JStr("EAAB")),
            E("verifyToken", JStr("s3cret")),
            E("pageId", JStr("1001")),
            E("appSecret", JStr("shh"))>>)),
        E("server", JObj(<<
            E("webhookPath", JStr("/hook"))>>))>>)

DocPartial ==
    JObj(<<
        E("facebook", JObj(<<
            E("pageAccessToken", JNull),
            E("verifyToken", JStr("")),
            E("pageId", JNum(0)),
            E("appSecret", JBool(FALSE))>>)),
        E("app", JStr("x"))>>)

DocServerNull == JObj(<<E("server", JNull)>>)

DocSecurity ==
    JObj(<<
        E("server", JObj(<<E("port", JNum(8080))>>)),
        E("security", JObj(<<
            E("allowedDomains", JArr(<<JStr("a.com")>>)),
            E("rateLimit", JNum(5)),
            E("adminUIDs", JObj(<<E("x", JNum(1))>>))>>))>>)

DocSections ==
    JObj(<<
        E("security", JArr(<<JStr("s")>>)),
        E("logging", JStr("verbose")),
        E("extra", JObj(<<E("k", JBool(TRUE))>>))>>)

\* the JSON values a settings file may hold
RawDocs ==
    { JNull, JNum(5), JStr("hi"), JArr(<<JStr("a")>>), JObj(<<>>),
      minimalTemplate, DocFilled, DocPartial, DocServerNull, DocSecurity,
      DocSections }

Texts == {Stringify(v) : v \in RawDocs} \cup InvalidTexts

Files == {NoFile} \cup {FileOf(t) : t \in Texts}
Backups == {NoFile} \cup {FileOf(t) : t \in InvalidTexts}

Disks ==
    [file : Files, bak : Backups,
     canRead : BOOLEAN, canWrite : BOOLEAN, canWriteBak : BOOLEAN]

\* what a caller may hand to saveConfig
SaveArgs == {minimalTemplate, DocFilled, JNull, Undefined, Circular}

----------------------------------------------------------------------------
(* ConfigStore called directly: the calls and the outside world *)

NoDisk ==
    [file |-> NoFile, bak |-> NoFile,
     canRead |-> TRUE, canWrite |-> TRUE, canWriteBak |-> TRUE]

NoCall ==
    [op |-> "none", thrown |-> FALSE, val |-> Undefined, missing |-> <<>>,
     eff |-> Eff(NoDisk, <<>>, <<>>), before |-> NoDisk,
     healed |-> FALSE, afterHeal |-> FALSE]

\* a load repaired a corrupt file: it wrote the backup and then the settings file
Repaired(r) == r.eff.writes = <<"backup", "config">>

\* the record of a call: its result r, the disk it started on, and whether a
\* repair has happened with no outside change since
Observe(r) ==
    [op |-> r.op, thrown |-> r.thrown, val |-> r.val, missing |-> r.missing,
     eff |-> r.eff, before |-> disk,
     healed |-> ret.healed \/ Repaired(r), afterHeal |-> ret.healed]

\* no HTTP request is being observed
NoRequest ==
    [kind |-> "none", mode |-> Undefined, token |-> Undefined,
     challenge |-> Undefined, fault |-> "none", body |-> Undefined,
     parsed |-> TRUE, trace |-> <<>>, escaped |-> FALSE, errBefore |-> JNull]

\* the value of a variable that a specification does not follow
NotFollowed == [followed |-> FALSE]

NoProcess ==
    /\ config = Undefined
    /\ lastRuntimeError = JNull
    /\ req = NoRequest
    /\ pending = <<>>
    /\ shared = NotFollowed
    /\ loop = NotFollowed

InitStore ==
    /\ disk \in Disks
    /\ disk.file.exists \/ disk.canRead
    /\ ret = NoCall
    /\ NoProcess

CallGetConfig ==
    /\ \E r \in {getConfig(disk)} :
          /\ ret' = Observe(r)
          /\ disk' = r.eff.disk
    /\ UNCHANGED <<config, lastRuntimeError, req, pending, shared, loop>>

CallGetMissingConfigKeys ==
    /\ \E r \in {getMissingConfigKeys(disk)} :
          /\ ret' = Observe(r)
          /\ disk' = r.eff.disk
    /\ UNCHANGED <<config, lastRuntimeError, req, pending, shared, loop>>

CallSaveConfig ==
    /\ \E c \in SaveArgs :
          \E r \in {saveConfig(disk, c)} :
             /\ ret' = Observe(r)
             /\ disk' = r.eff.disk
    /\ UNCHANGED <<config, lastRuntimeError, req, pending, shared, loop>>

\* ensureConfigFile() on its own, as loadConfigRaw calls it first
CallEnsureConfigFile ==
    /\ \E e \in {ensureConfigFile(disk)} :
          /\ ret' = Observe(Returned("ensureConfigFile", Undefined, <<>>, e))
          /\ disk' = e.disk
    /\ UNCHANGED <<config, lastRuntimeError, req, pending, shared, loop>>

\* somebody edits, replaces or corrupts the settings file
OutsideEdit ==
    \E t \in Texts :
        /\ disk' = [disk EXCEPT !.file = FileOf(t)]
        /\ disk' # disk
        /\ ret' = NoCall
        /\ UNCHANGED <<config, lastRuntimeError, req, pending, shared, loop>>

OutsideDelete ==
    /\ disk.file.exists
    /\ disk' = [disk EXCEPT !.file = NoFile, !.canRead = TRUE]
    /\ ret' = NoCall
    /\ UNCHANGED <<config, lastRuntimeError, req, pending, shared, loop>>

\* the permissions of the settings file, of its directory, of the backup change
OutsideChmod ==
    \E r \in BOOLEAN, w \in BOOLEAN, b \in BOOLEAN :
        /\ disk.file.exists \/ r
        /\ disk' = [disk EXCEPT !.canRead = r, !.canWrite = w, !.canWriteBak = b]
        /\ disk' # disk
        /\ ret' = NoCall
        /\ UNCHANGED <<config, lastRuntimeError, req, pending, shared, loop>>

NextStore ==
    \/ CallGetConfig
    \/ CallGetMissingConfigKeys
    \/ CallSaveConfig
    \/ CallEnsureConfigFile
    \/ OutsideEdit
    \/ OutsideDelete
    \/ OutsideChmod

SpecStore == InitStore /\ [][NextStore]_vars

----------------------------------------------------------------------------
(* ConfigStore: the properties *)

RECURSIVE PathGet(_, _)
\* v[k1][k2]..., undefined as soon as a step has nothing to read from
PathGet(v, path) ==
    IF path = <<>> THEN v
    ELSE IF IsNullish(v) THEN Undefined
    ELSE PathGet(Prop(v, Head(path)), Tail(path))

RECURSIVE LeafPaths(_, _)
\* the key paths of the leaves (the values that are not plain objects) of v
LeafPaths(v, prefix) ==
    IF v.t = "object"
    THEN UNION {LeafPaths(v.o[i].v, Append(prefix, v.o[i].k)) : i \in 1..Len(v.o)}
    ELSE {prefix}

RECURSIVE Complete(_, _)
\* v has every key of def, and an object wherever def has one
Complete(def, v) ==
    /\ v.t = "object"
    /\ \A i \in 1..Len(def.o) :
          /\ HasEntry(v.o, def.o[i].k)
          /\ def.o[i].v.t = "object" =>
                Complete(def.o[i].v, GetEntry(v.o, def.o[i].k))

\* the raw data the last call loaded
RawOfLastCall == loadConfigRaw(ret.before).data

IsLoad == ret.op \in {"getConfig", "getMissingConfigKeys"}

HeldInvalidText ==
    ret.before.file.exists /\ ~JSONParse(ret.before.file.text).ok

\* C1: no ConfigStore operation ever raises to its caller, whatever the
\* settings file holds (absent, unreadable, unwritable, invalid text, or any
\* JSON value): getConfig, getMissingConfigKeys and saveConfig return normally.
C1_NeverRaises == ~ret.thrown

\* C2: whatever the settings file holds, the configuration getConfig()
\* returns has every key path of fallbackConfig, and an object wherever
\* fallbackConfig has one.
C2_AlwaysComplete ==
    (ret.op = "getConfig" /\ ~ret.thrown) => Complete(fallbackConfig, ret.val)

\* the effect of one repairing load: the backup holds the original bytes, the
\* settings file the serialized minimalTemplate, and the result is
\* minimalTemplate merged over fallbackConfig (which is fallbackConfig itself)
RepairDone ==
    /\ disk.bak = FileOf(ret.before.file.text)
    /\ disk.file = FileOf(templateText)
    /\ JSONParse(disk.file.text) = ParseOk(minimalTemplate, <<>>)
    /\ ~ret.thrown
    /\ ret.val = fallbackConfig
    /\ ret.val = MergeDeep(fallbackConfig, minimalTemplate)

\* a load that follows a repair, with no outside change in between, sees a
\* valid file and writes neither the settings file nor the backup
NoRewriteAfterRepair ==
    (IsLoad /\ ret.afterHeal) =>
        /\ ret.before.file.exists
        /\ JSONParse(ret.before.file.text).ok
        /\ ret.eff.writes = <<>>

C9_MergePrecedence ==
    (ret.op = "getConfig" /\ ~ret.thrown) =>
        \A p \in LeafPaths(fallbackConfig, <<>>) :
            LET rv == PathGet(RawOfLastCall, p) IN
            CASE rv.t = "undefined" ->
                    PathGet(ret.val, p) = PathGet(fallbackConfig, p)
              [] rv.t = "object" -> TRUE
              [] OTHER -> PathGet(ret.val, p) = rv

\* the leaves of minimalTemplate, in the order of its keys
TemplateLeaves ==
    << <<"app", "name">>, <<"app", "version">>, <<"app", "author">>,
       <<"facebook", "pageAccessToken">>, <<"facebook", "verifyToken">>,
       <<"facebook", "pageId">>, <<"facebook", "appSecret">>,
       <<"server", "webhookPath">> >>

DotPath(p) == p[1] \o "." \o p[2]

IsMissingValue(v) == v = JStr("") \/ v.t = "null" \/ v.t = "undefined"

RECURSIVE ExpectedMissing(_, _)
\* the dot-paths of the template leaves, among ps, that raw lacks
ExpectedMissing(raw, ps) ==
    IF ps = <<>> THEN <<>>
    ELSE (IF IsMissingValue(PathGet(raw, Head(ps)))
          THEN <<DotPath(Head(ps))>>
          ELSE <<>>)
         \o ExpectedMissing(raw, Tail(ps))

\* C10: getMissingConfigKeys() returns exactly the dot-paths of the
\* minimalTemplate leaves whose value in the raw data is empty string, null or
\* absent, and no others.
C10_ExactlyMissing ==
    ret.op = "getMissingConfigKeys" =>
        /\ ~ret.thrown
        /\ ret.missing = ExpectedMissing(RawOfLastCall, TemplateLeaves)

\* C17: ensureConfigFile() writes the settings file only when the file does
\* not exist, and then writes MinimalTemplate; on an existing file, whatever
\* its content, it writes nothing and leaves the disk as it was; a second
\* call right after a call that wrote writes nothing.
C17_EnsureIdempotent ==
    ret.op = "ensureConfigFile" =>
        /\ ~ret.thrown
        /\ ret.before.file.exists =>
              /\ ret.eff.writes = <<>>
              /\ disk = ret.before
        /\ ret.eff.writes # <<>> =>
              /\ ~ret.before.file.exists
              /\ ret.eff.writes = <<"config">>
              /\ disk.file = FileOf(templateText)
              /\ ensureConfigFile(disk) = Eff(disk, <<>>, <<>>)
        /\ disk.bak = ret.before.bak

\* C17's case: the call found a user's file that is not the template, even
\* an invalid one, and left it alone
C17_Witness ==
    /\ ret.op = "ensureConfigFile"
    /\ ret.before.file.exists
    /\ ret.before.file.text \in InvalidTexts
    /\ disk.file = ret.before.file

----------------------------------------------------------------------------
(* index.js: what a request handler does, in program order *)

Send(status, body) == [ev |-> "send", status |-> status, body |-> body]
Reload(thrown) == [ev |-> "reload", thrown |-> thrown]
Log(level, msg) == [ev |-> "log", level |-> level, msg |-> msg]
SetError(msg) == [ev |-> "lastRuntimeError", msg |-> msg]
\* a call of handler h for the j-th item of list "messaging" or "changes" of
\* the i-th entry, the arguments it is given and how that call ends
Invoke(h, i, list, j, outcome, args) ==
    [ev |-> "invoke", h |-> h, e |-> i, list |-> list, j |-> j,
     outcome |-> outcome, args |-> args]

Sends(trace) == SelectSeq(trace, LAMBDA x : x.ev = "send")
Invocations(trace) == SelectSeq(trace, LAMBDA x : x.ev = "invoke")

\* How a handler call can end: it returns (a value, or a result that is
\* fulfilled), it returns a result that never settles, it throws an Error or
\* a non-Error (null) synchronously, or it returns a result that is later
\* rejected with an Error or with null.
Outcomes ==
    {"returns", "neverSettles", "throwsError", "throwsNull", "rejectsError",
     "rejectsNull"}

\* the message of the Error a failing handler throws or rejects with
HandlerErrMsg == "send failed"

\* a && b
AndThen(a, b) == IF Truthy(a) THEN b ELSE a

\* the message of the TypeError for reading a property of null or undefined
NullReadMsg == "Cannot read properties of null"
\* the message of the TypeError for calling forEach on a value that has none
NotFunctionMsg == "forEach is not a function"

\* the state of the dispatch loop: what it did so far, and the exception (if
\* any) that is propagating out of it
Throw(acc, msg) == [acc EXCEPT !.thrown = TRUE, !.msg = msg]

\* Promise.resolve(handler(...)).catch(...) inside try/catch: the n-th handler
\* call of the request ends as oc[n]; the catch block reads err.message
InvokeHandler(acc, h, i, list, j, oc, label, args) ==
    LET o == oc[Len(Invocations(acc.trace)) + 1]
        t1 == Append(acc.trace, Invoke(h, i, list, j, o, args))
    IN  CASE o = "throwsError" ->
                [acc EXCEPT !.trace = Append(t1, Log("error", label))]
          [] o = "throwsNull" -> Throw([acc EXCEPT !.trace = t1], NullReadMsg)
          [] OTHER -> [acc EXCEPT !.trace = t1]

\* a messaging callback with two separate tests: an event with a message and
\* a postback reaches both handlers
messagingCallbackBoth(event, i, j, acc, oc) ==
    IF IsNullish(event) THEN Throw(acc, NullReadMsg)
    ELSE LET senderId == AndThen(Prop(event, "sender"),
                                 Prop(Prop(event, "sender"), "id"))
             recipientId == AndThen(Prop(event, "recipient"),
                                    Prop(Prop(event, "recipient"), "id"))
             a1 == IF Truthy(Prop(event, "message"))
                   THEN InvokeHandler(acc, "handleMessage", i, "messaging", j,
                                      oc, "Error dispatching messaging event",
                                      <<Prop(event, "message"), senderId,
                                        recipientId>>)
                   ELSE acc
         IN  IF ~a1.thrown /\ Truthy(Prop(event, "postback"))
             THEN InvokeHandler(a1, "handlePostback", i, "messaging", j, oc,
                                "Error dispatching messaging event",
                                <<Prop(event, "postback"), senderId, recipientId>>)
             ELSE a1

\* the callback of entry.messaging.forEach; the handlers get the message or
\* postback, the sender id and the recipient id (and a timestamp, left out
\* here because it may come from the clock)
messagingCallback(event, i, j, acc, oc) ==
    IF IsNullish(event) THEN Throw(acc, NullReadMsg)
    ELSE LET senderId == AndThen(Prop(event, "sender"),
                                 Prop(Prop(event, "sender"), "id"))
             recipientId == AndThen(Prop(event, "recipient"),
                                    Prop(Prop(event, "recipient"), "id"))
         IN  IF Truthy(Prop(event, "message"))
             THEN InvokeHandler(acc, "handleMessage", i, "messaging", j, oc,
                                "Error dispatching messaging event",
                                <<Prop(event, "message"), senderId, recipientId>>)
             ELSE IF Truthy(Prop(event, "postback"))
             THEN InvokeHandler(acc, "handlePostback", i, "messaging", j, oc,
                                "Error dispatching messaging event",
                                <<Prop(event, "postback"), senderId, recipientId>>)
             ELSE acc

\* a changes callback that hands every feed change to the comment handler
changesCallbackAnyFeed(entry, change, i, j, acc, oc) ==
    IF IsNullish(change) THEN Throw(acc, NullReadMsg)
    ELSE LET value == IF Truthy(Prop(change, "value"))
                      THEN Prop(change, "value")
                      ELSE JObj(<<>>)
         IN  IF Prop(change, "field") = JStr("feed")
             THEN InvokeHandler(acc, "handleComment", i, "changes", j, oc,
                                "Error dispatching comment event",
                                <<JObj(<<E("message", Prop(value, "message"))>>),
                                  Prop(entry, "id")>>)
             ELSE acc

\* the callback of entry.changes.forEach; the handler gets the comment
\* (without createdAt, which may come from the clock) and the entry's id
changesCallback(entry, change, i, j, acc, oc) ==
    IF IsNullish(change) THEN Throw(acc, NullReadMsg)
    ELSE LET value == IF Truthy(Prop(change, "value"))
                      THEN Prop(change, "value")
                      ELSE JObj(<<>>)
             from == Prop(value, "from")
             comment ==
                 JObj(<<E("commentId", Prop(value, "comment_id")),
                        E("postId", Prop(value, "post_id")),
                        E("senderId", AndThen(from, Prop(from, "id"))),
                        E("senderName", AndThen(from, Prop(from, "name"))),
                        E("message", IF Truthy(Prop(value, "message"))
                                     THEN Prop(value, "message")
                                     ELSE JStr(""))>>)
         IN  IF /\ Prop(change, "field") = JStr("feed")
                /\ Prop(value, "item") = JStr("comment")
                /\ Prop(value, "verb") = JStr("add")
             THEN InvokeHandler(acc, "handleComment", i, "changes", j, oc,
                                "Error dispatching comment event",
                                <<comment, Prop(entry, "id")>>)
             ELSE acc

RECURSIVE forEachMessaging(_, _, _, _, _)
forEachMessaging(events, j, i, acc, oc) ==
    IF acc.thrown \/ j > Len(events) THEN acc
    ELSE forEachMessaging(events, j + 1, i,
                          messagingCallback(events[j], i, j, acc, oc), oc)

RECURSIVE forEachChanges(_, _, _, _, _, _)
forEachChanges(entry, changes, j, i, acc, oc) ==
    IF acc.thrown \/ j > Len(changes) THEN acc
    ELSE forEachChanges(entry, changes, j + 1, i,
                        changesCallback(entry, changes[j], i, j, acc, oc), oc)

\* an entry callback that walks the changes before the messaging events
entryCallbackChangesFirst(entry, i, acc, oc) ==
    IF IsNullish(entry) THEN Throw(acc, NullReadMsg)
    ELSE LET c == Prop(entry, "changes")
             a1 == IF IsNullish(c) THEN acc
                   ELSE IF ~IsArray(c) THEN Throw(acc, NotFunctionMsg)
                   ELSE forEachChanges(entry, c.a, 1, i, acc, oc)
             m == Prop(entry, "messaging")
         IN  IF a1.thrown \/ IsNullish(m) THEN a1
             ELSE IF ~IsArray(m) THEN Throw(a1, NotFunctionMsg)
             ELSE forEachMessaging(m.a, 1, i, a1, oc)

\* the callback of body.entry.forEach; list?.forEach(cb) does nothing for a
\* nullish list and throws a TypeError for a value that is not an array
entryCallback(entry, i, acc, oc) ==
    IF IsNullish(entry) THEN Throw(acc, NullReadMsg)
    ELSE LET m == Prop(entry, "messaging")
             a1 == IF IsNullish(m) THEN acc
                   ELSE IF ~IsArray(m) THEN Throw(acc, NotFunctionMsg)
                   ELSE forEachMessaging(m.a, 1, i, acc, oc)
             c == Prop(entry, "changes")
         IN  IF a1.thrown \/ IsNullish(c) THEN a1
             ELSE IF ~IsArray(c) THEN Throw(a1, NotFunctionMsg)
             ELSE forEachChanges(entry, c.a, 1, i, a1, oc)

RECURSIVE forEachEntry(_, _, _, _)
forEachEntry(entries, i, acc, oc) ==
    IF acc.thrown \/ i > Len(entries) THEN acc
    ELSE forEachEntry(entries, i + 1, entryCallback(entries[i], i, acc, oc), oc)

\* the try block of the POST handler, after the credential check
dispatch(body, loadOk, oc) ==
    LET acc0 == [trace |-> <<>>, thrown |-> FALSE, msg |-> ""]
        entry == Prop(body, "entry")
    IN  IF Prop(body, "object") # JStr("page") THEN acc0
        ELSE IF ~loadOk
        THEN [acc0 EXCEPT !.trace =
                 <<Log("error", "Failed to load message handlers")>>]
        ELSE IF IsNullish(entry) THEN acc0
        ELSE IF ~IsArray(entry) THEN Throw(acc0, NotFunctionMsg)
        ELSE forEachEntry(entry.a, 1, acc0, oc)

\* the handler results of a request that are still to settle
Rejections(trace) ==
    SelectSeq(Invocations(trace),
              LAMBDA x : x.outcome \in {"rejectsError", "rejectsNull"})

AsPending(invs) == [k \in 1..Len(invs) |-> [h |-> invs[k].h, outcome |-> invs[k].outcome]]

\* What a client sends as the body of a POST: nothing, or a text with
\* Content-Type application/json.
NoPayload == [sent |-> FALSE, text |-> <<>>]
PayloadOf(text) == [sent |-> TRUE, text |-> text]

\* app.use(bodyParser.json(...)), which runs before the route handlers: with
\* no body, req.body is left for the handler's `req.body || {}`; an empty
\* text gives {}; a text that does not start an object or an array (strict
\* mode) or that JSON.parse rejects ends the request with an error passed to
\* Express, which answers 400 and runs no route handler.
bodyParserJson(raw) ==
    IF ~raw.sent THEN [ok |-> TRUE, body |-> Undefined]
    ELSE IF raw.text = <<>> THEN [ok |-> TRUE, body |-> JObj(<<>>)]
    ELSE IF ~(IsPunct(raw.text[1], "{") \/ IsPunct(raw.text[1], "["))
    THEN [ok |-> FALSE, body |-> Undefined]
    ELSE LET parsed == JSONParse(raw.text) IN
         IF parsed.ok THEN [ok |-> TRUE, body |-> parsed.val]
         ELSE [ok |-> FALSE, body |-> Undefined]

\* the answer of Express to a request whose body the parser rejected
badRequest == <<Send(400, JStr("Bad Request"))>>

\* the order of the POST handler's statements: the response is sent, then
\* everything else runs
respondThenProcess(ack, work) == ack \o work

\* a credential check that only looks for the facebook section
hasFacebookSection(cfg) == Truthy(Prop(cfg, "facebook"))

\* the POST handler's credential check: config.facebook and
\* config.facebook.pageAccessToken are both truthy
hasAccessToken(cfg) ==
    /\ Truthy(Prop(cfg, "facebook"))
    /\ Truthy(Prop(Prop(cfg, "facebook"), "pageAccessToken"))

\* app.post(webhookPath): everything the handler does for one request, with
\* the module-level config cfg and last error err; r is what its call of
\* getConfig() does and returns
postWebhook(r, cfg, err, reqBody, loadOk, oc) ==
    LET ack == <<Send(200, JStr("EVENT_RECEIVED"))>>
        body == IF Truthy(reqBody) THEN reqBody ELSE JObj(<<>>)
        acc == dispatch(body, loadOk, oc)
    IN  IF r.thrown
        THEN [trace |-> respondThenProcess(ack, <<Reload(TRUE)>>),
              disk |-> r.eff.disk, config |-> cfg, err |-> err,
              escaped |-> TRUE]
        ELSE IF ~hasAccessToken(r.val)
        THEN [trace |-> respondThenProcess(ack,
                  <<Reload(FALSE),
                    Log("warn", "Skipping webhook event processing")>>),
              disk |-> r.eff.disk, config |-> r.val, err |-> err,
              escaped |-> FALSE]
        ELSE IF acc.thrown
        THEN [trace |-> respondThenProcess(ack,
                  <<Reload(FALSE)>> \o acc.trace
                  \o <<Log("error", "Error processing webhook event"),
                       SetError(acc.msg)>>),
              disk |-> r.eff.disk, config |-> r.val, err |-> JStr(acc.msg),
              escaped |-> FALSE]
        ELSE [trace |-> respondThenProcess(ack, <<Reload(FALSE)>> \o acc.trace),
              disk |-> r.eff.disk, config |-> r.val, err |-> err,
              escaped |-> FALSE]

\* What can go wrong inside the verification handler. Nothing the handler
\* itself evaluates can throw (req.query and config are always objects), so
\* an exception in its try block comes from a collaborator: here the logger
\* call of line 115 or 118 throws an Error.
Faults == {"none", "loggerThrows"}
LoggerErrMsg == "write EPIPE"

\* the catch block of the verification handler: it logs, records the message
\* and sends an empty 200
verificationFailed(err, msg) ==
    [trace |-> <<Log("error", "Error in webhook verification"), SetError(msg),
                 Send(200, JStr(""))>>,
     err |-> JStr(msg)]

\* app.get(webhookPath): the verification handshake, with the module-level
\* config cfg and last error err
getWebhook(cfg, err, mode, token, challenge, fault) ==
    LET fb == Prop(cfg, "facebook")
        verifyToken == IF Truthy(fb) /\ Truthy(Prop(fb, "verifyToken"))
                       THEN Prop(fb, "verifyToken")
                       ELSE JStr("")
    IN  IF fault = "loggerThrows"
        THEN verificationFailed(err, LoggerErrMsg)
        ELSE IF mode = JStr("subscribe") /\ token = verifyToken
        THEN [trace |-> <<Log("info", "Webhook verified successfully"),
                          Send(200, IF Truthy(challenge) THEN challenge
                                    ELSE JStr(""))>>,
              err |-> err]
        ELSE [trace |-> <<Log("warn", "Webhook verification failed"),
                          Send(403, JStr("Forbidden"))>>,
              err |-> err]

OrElse(v, default) == IF Truthy(v) THEN v ELSE default

\* a status read that empties the last-error slot
readAndClearLastError(err) == JNull

\* the last-error slot after /status has put it in its answer: it is read,
\* not assigned
readLastError(err) == err

\* app.get('/status'), with the module-level config cfg and last error err;
\* r is what its call of getConfig() does and returns, m what its call of
\* getMissingConfigKeys() does and returns
getStatus(r, m, cfg, err) ==
    LET fb == Prop(r.val, "facebook")
        app == Prop(r.val, "app")
        answer ==
            JObj(<<
                E("status", JStr(IF m.missing = <<>> THEN "READY"
                                 ELSE "SETUP REQUIRED")),
                E("missingConfig",
                  JArr([k \in 1..Len(m.missing) |-> JStr(m.missing[k])])),
                E("verifyToken",
                  IF Truthy(fb) THEN OrElse(Prop(fb, "verifyToken"), JStr(""))
                  ELSE JStr("")),
                E("page", JObj(<<
                    E("id", IF Truthy(fb) THEN OrElse(Prop(fb, "pageId"), JStr(""))
                            ELSE JStr("")),
                    E("name", IF Truthy(app)
                              THEN OrElse(Prop(app, "name"), JStr("FB Page Bot"))
                              ELSE JStr("FB Page Bot"))>>)),
                E("lastError", err)>>)
    IN  IF r.thrown
        THEN [trace |-> <<Reload(TRUE)>>, disk |-> r.eff.disk, config |-> cfg,
              err |-> err, escaped |-> TRUE]
        ELSE IF m.thrown
        THEN [trace |-> <<Reload(FALSE)>>, disk |-> m.eff.disk,
              config |-> r.val, err |-> err, escaped |-> TRUE]
        ELSE [trace |-> <<Reload(FALSE), Send(200, answer)>>,
              disk |-> m.eff.disk, config |-> r.val,
              err |-> readLastError(err), escaped |-> FALSE]

----------------------------------------------------------------------------
(* The running application: the requests and the outside world *)

\* the most handler results that may be unsettled at once
MaxPending == 1

DocVerifyNull ==
    JObj(<<
        E("facebook", JObj(<<
            E("pageAccessToken", JStr("EAAB")),
            E("verifyToken", JNull)>>))>>)

\* the settings after the verify token has been changed
DocRotated ==
    JObj(<<
        E("facebook", JObj(<<
            E("pageAccessToken", JStr("EAAB")),
            E("verifyToken", JStr("xx"))>>))>>)

\* the settings files the running application meets
WebTexts ==
    {Stringify(v) : v \in {JNull, minimalTemplate, DocFilled,
                           DocVerifyNull, DocRotated}}
    \cup {<<Punct("{")>>}

StartDisks ==
    [file : {NoFile} \cup {FileOf(t) : t \in WebTexts}, bak : {NoFile},
     canRead : {TRUE}, canWrite : {TRUE}, canWriteBak : {TRUE}]

\* the query parameters of a verification GET
Modes == {Undefined, JStr("subscribe"), JStr("unsubscribe")}
Tokens == {Undefined, JStr(""), JStr("xx"), JStr("s3cret")}
Challenges == {Undefined, JStr("1158201444")}

MsgEvent ==
    JObj(<<E("sender", JObj(<<E("id", JStr("u1"))>>)),
           E("recipient", JObj(<<E("id", JStr("p1"))>>)),
           E("timestamp", JNum(1700000000)),
           E("message", JObj(<<E("text", JStr("hello"))>>))>>)

PostbackEvent ==
    JObj(<<E("sender", JObj(<<E("id", JStr("u2"))>>)),
           E("postback", JObj(<<E("payload", JStr("GET_STARTED"))>>))>>)

BothEvent ==
    JObj(<<E("message", JObj(<<E("text", JStr("hi"))>>)),
           E("postback", JObj(<<E("payload", JStr("X"))>>))>>)

EmptyEvent == JObj(<<E("sender", JObj(<<E("id", JStr("u3"))>>))>>)

CommentChange ==
    JObj(<<E("field", JStr("feed")),
           E("value", JObj(<<E("item", JStr("comment")),
                             E("verb", JStr("add")),
                             E("comment_id", JStr("c1"))>>))>>)

LikeChange ==
    JObj(<<E("field", JStr("feed")),
           E("value", JObj(<<E("item", JStr("like")),
                             E("verb", JStr("add"))>>))>>)

NoValueChange == JObj(<<E("field", JStr("feed"))>>)

OtherFieldChange ==
    JObj(<<E("field", JStr("mention")),
           E("value", JObj(<<E("item", JStr("comment")),
                             E("verb", JStr("add"))>>))>>)

RemoveChange ==
    JObj(<<E("field", JStr("feed")),
           E("value", JObj(<<E("item", JStr("comment")),
                             E("verb", JStr("remove"))>>))>>)

CommentWithMessage ==
    JObj(<<E("field", JStr("feed")),
           E("value", JObj(<<E("item", JStr("comment")),
                             E("verb", JStr("add")),
                             E("from", JObj(<<E("id", JStr("u9"))>>)),
                             E("message", JStr("nice"))>>))>>)

Page(entries) == JObj(<<E("object", JStr("page")), E("entry", JArr(entries))>>)
Entry(id, messaging, changes) ==
    JObj(<<E("id", JStr(id)), E("messaging", messaging), E("changes", changes)>>)

\* two messaging events and one qualifying comment change
BodyThree ==
    Page(<<Entry("p1", JArr(<<MsgEvent, PostbackEvent>>),
                 JArr(<<CommentChange>>))>>)

BodyNullEntry ==
    Page(<<JNull, Entry("p2", JArr(<<MsgEvent>>), Undefined)>>)

BodyMessagingNotList ==
    Page(<<Entry("p1", JStr("oops"), JArr(<<CommentChange>>)),
           Entry("p2", JArr(<<MsgEvent>>), Undefined)>>)

BodyNullEvent ==
    Page(<<Entry("p1", JArr(<<JNull, MsgEvent>>), Undefined)>>)

BodyNullChange ==
    Page(<<Entry("p1", Undefined, JArr(<<JNull, CommentChange>>)),
           Entry("p2", Undefined, JArr(<<CommentWithMessage>>))>>)

BodyMixed ==
    Page(<<Entry("p1", JArr(<<BothEvent, EmptyEvent>>),
                 JArr(<<LikeChange, NoValueChange, CommentWithMessage>>)),
           Entry("p2", JArr(<<PostbackEvent>>), JArr(<<>>))>>)

BodyOtherChanges ==
    Page(<<Entry("p1", Undefined,
                 JArr(<<OtherFieldChange, RemoveChange, LikeChange,
                        NoValueChange>>))>>)

\* the JSON values a client may send as the body of a POST
Bodies ==
    { JObj(<<>>),
      JArr(<<JStr("a")>>),
      JObj(<<E("object", JStr("user")), E("entry", JArr(<<
          Entry("u", JArr(<<MsgEvent>>), Undefined)>>))>>),
      JObj(<<E("entry", JArr(<<Entry("p1", JArr(<<MsgEvent>>), Undefined)>>))>>),
      JObj(<<E("object", JStr("page"))>>),
      JObj(<<E("object", JStr("page")), E("entry", JStr("oops"))>>),
      BodyThree, BodyNullEntry, BodyMessagingNotList, BodyNullEvent,
      BodyNullChange, BodyMixed, BodyOtherChanges }

\* what a client may send: no body, an empty text, a JSON value, a text cut
\* off in the middle, a JSON text that is neither an object nor an array
Payloads ==
    {NoPayload}
    \cup {PayloadOf(Stringify(b)) : b \in Bodies}
    \cup {PayloadOf(<<>>), PayloadOf(<<Punct("{")>>),
          PayloadOf(Stringify(JStr("page")))}

\* what the body parser makes of each payload
parsedPayload == [raw \in Payloads |-> bodyParserJson(raw)]

\* the handler calls a body can lead to at most
MaxCalls(body) ==
    LET b == IF Truthy(body) THEN body ELSE JObj(<<>>)
        all == [k \in 1..(Len(IdxKeys) * Len(IdxKeys)) |-> "returns"]
    IN  Len(Invocations(dispatch(b, TRUE, all).trace))

\* how the handler calls of one request end: at most one of them fails
OutcomeChoices(n) ==
    {oc \in [1..n -> Outcomes] :
        Cardinality({k \in 1..n : oc[k] # "returns"}) <= 1}

\* the outcome choices for each payload
outcomeChoices ==
    [raw \in Payloads |->
        IF parsedPayload[raw].ok
        THEN OutcomeChoices(MaxCalls(parsedPayload[raw].body))
        ELSE {<<>>}]

Idle == req = NoRequest

Init ==
    /\ \E d \in StartDisks :
          \E r \in {getConfig(d)} :
          /\ ~r.thrown
          /\ disk = r.eff.disk
          /\ config = r.val
    /\ lastRuntimeError = JNull
    /\ req = NoRequest
    /\ pending = <<>>
    /\ ret = NoCall
    /\ shared = NotFollowed
    /\ loop = NotFollowed

\* GET on the webhook path
Verify ==
    /\ Idle
    /\ \E mode \in Modes, token \in Tokens, challenge \in Challenges,
          fault \in Faults :
          \E p \in {getWebhook(config, lastRuntimeError, mode, token,
                               challenge, fault)} :
             /\ req' = [NoRequest EXCEPT
                           !.kind = "GET", !.mode = mode, !.token = token,
                           !.challenge = challenge, !.fault = fault,
                           !.trace = p.trace,
                           !.errBefore = lastRuntimeError]
             /\ lastRuntimeError' = p.err
    /\ UNCHANGED <<disk, ret, config, pending, shared, loop>>

\* POST on the webhook path
Ingest ==
    /\ Idle
    /\ \E r \in {getConfig(disk)}, raw \in Payloads :
       \E bp \in {parsedPayload[raw]} :
          IF ~bp.ok
          THEN /\ req' = [NoRequest EXCEPT
                             !.kind = "POST", !.parsed = FALSE,
                             !.trace = badRequest,
                             !.errBefore = lastRuntimeError]
               /\ UNCHANGED <<disk, config, lastRuntimeError, pending>>
          ELSE
          \E loadOk \in BOOLEAN :
          \E oc \in (IF loadOk THEN outcomeChoices[raw] ELSE {<<>>}) :
          \E p \in {postWebhook(r, config, lastRuntimeError, bp.body,
                                loadOk, oc)} :
             LET new == AsPending(Rejections(p.trace))
             IN  /\ Len(pending) + Len(new) <= MaxPending
                 /\ req' = [NoRequest EXCEPT
                               !.kind = "POST", !.body = bp.body,
                               !.trace = p.trace, !.escaped = p.escaped,
                               !.errBefore = lastRuntimeError]
                 /\ disk' = p.disk
                 /\ config' = p.config
                 /\ lastRuntimeError' = p.err
                 /\ pending' = pending \o new
    /\ UNCHANGED <<ret, shared, loop>>

\* GET /status
Status ==
    /\ Idle
    /\ \E r \in {getConfig(disk)} :
       \E m \in {getMissingConfigKeys(r.eff.disk)} :
       \E p \in {getStatus(r, m, config, lastRuntimeError)} :
       /\ req' = [NoRequest EXCEPT
                     !.kind = "STATUS", !.trace = p.trace,
                     !.escaped = p.escaped, !.errBefore = lastRuntimeError]
       /\ disk' = p.disk
       /\ config' = p.config
       /\ lastRuntimeError' = p.err
    /\ UNCHANGED <<ret, pending, shared, loop>>

\* a handler result is rejected: the .catch callback logs err.message, which
\* itself throws when the rejection value is null
Settle ==
    /\ Idle
    /\ \E k \in 1..Len(pending) :
          /\ req' = [NoRequest EXCEPT
                        !.kind = "SETTLE",
                        !.trace =
                            IF pending[k].outcome = "rejectsError"
                            THEN <<Log("error", "Error handling " \o pending[k].h)>>
                            ELSE <<Log("unhandledRejection", NullReadMsg)>>,
                        !.errBefore = lastRuntimeError]
          /\ pending' = SubSeq(pending, 1, k - 1)
                        \o SubSeq(pending, k + 1, Len(pending))
    /\ UNCHANGED <<disk, ret, config, lastRuntimeError, shared, loop>>

\* the handler has returned
RequestDone ==
    /\ ~Idle
    /\ req' = NoRequest
    /\ UNCHANGED <<disk, ret, config, lastRuntimeError, pending, shared, loop>>

\* somebody edits, replaces or corrupts the settings file while the
\* application runs
EditFile ==
    /\ Idle
    /\ \E t \in WebTexts :
          /\ disk' = [disk EXCEPT !.file = FileOf(t)]
          /\ disk' # disk
    /\ UNCHANGED <<ret, config, lastRuntimeError, req, pending, shared, loop>>

DeleteFile ==
    /\ Idle
    /\ disk.file.exists
    /\ disk' = [disk EXCEPT !.file = NoFile, !.canRead = TRUE]
    /\ UNCHANGED <<ret, config, lastRuntimeError, req, pending, shared, loop>>

\* the settings file becomes unreadable, or readable again
ChmodFile ==
    /\ Idle
    /\ disk.file.exists
    /\ disk' = [disk EXCEPT !.canRead = ~disk.canRead]
    /\ UNCHANGED <<ret, config, lastRuntimeError, req, pending, shared, loop>>

Next ==
    \/ Verify
    \/ Ingest
    \/ Status
    \/ Settle
    \/ RequestDone
    \/ EditFile
    \/ DeleteFile
    \/ ChmodFile

Spec == Init /\ [][Next]_vars

----------------------------------------------------------------------------
(* The webhook gateway and the dispatcher: the properties *)

IsGet == req.kind = "GET"
IsPost == req.kind = "POST"
\* a POST that reached the route handler
Handled == IsPost /\ req.parsed

Logged(msg) == \E k \in 1..Len(req.trace) :
                  req.trace[k].ev = "log" /\ req.trace[k].msg = msg

\* the request's getConfig() returned
Reloaded == \E k \in 1..Len(req.trace) : req.trace[k] = Reload(FALSE)

\* the verify token of the configuration the process holds
ConfiguredVerifyToken == PathGet(config, <<"facebook", "verifyToken">>)

\* C4: the verification GET answers 200 with the challenge only if mode is
\* 'subscribe' and the supplied token exactly equals the configured verify
\* token; every other combination (supplied token absent or empty, configured
\* token empty, null or absent) gets the fixed 403 'Forbidden'.
C4_VerifyOnlyOnExactToken ==
    (IsGet /\ req.fault = "none") =>
        LET match == /\ req.mode = JStr("subscribe")
                     /\ req.token.t = "string"
                     /\ req.token = ConfiguredVerifyToken
            answer == Sends(req.trace)
        IN  /\ Len(answer) = 1
            /\ answer[1] \in {Send(200, OrElse(req.challenge, JStr(""))),
                              Send(403, JStr("Forbidden"))}
            /\ answer[1].status = 200 => match
            /\ ~match => answer[1] = Send(403, JStr("Forbidden"))

\* C5: for every POST, whatever the body and the configuration, the fixed
\* acknowledgment (200, 'EVENT_RECEIVED') is sent before the configuration is
\* reloaded and before any handler is invoked, exactly one response is sent,
\* and nothing later changes or repeats it.
C5_AckFirstAndOnce ==
    IsPost =>
        /\ Len(req.trace) >= 2
        /\ req.trace[1] = Send(200, JStr("EVENT_RECEIVED"))
        /\ Sends(req.trace) = <<Send(200, JStr("EVENT_RECEIVED"))>>
        /\ \A k \in 1..Len(req.trace) :
              req.trace[k].ev \in {"reload", "invoke", "lastRuntimeError"}
                  => k > 1

\* the places <<entry, list, item>> of a payload that hold an event with a
\* handler: a messaging event with a message or a postback, a feed change
\* that adds a comment
IsDispatchable(list, item) ==
    /\ ~IsNullish(item)
    /\ IF list = "messaging"
       THEN Truthy(Prop(item, "message")) \/ Truthy(Prop(item, "postback"))
       ELSE /\ Prop(item, "field") = JStr("feed")
            /\ PathGet(item, <<"value", "item">>) = JStr("comment")
            /\ PathGet(item, <<"value", "verb">>) = JStr("add")

ListOf(entry, list) ==
    IF IsNullish(entry) THEN <<>>
    ELSE IF IsArray(Prop(entry, list)) THEN Prop(entry, list).a
    ELSE <<>>

Dispatchable(body) ==
    LET entries == PathGet(body, <<"entry">>) IN
    IF ~IsArray(entries) THEN {}
    ELSE {pos \in (1..Len(entries.a)) \X {"messaging", "changes"}
                  \X (1..Len(IdxKeys)) :
             /\ pos[3] <= Len(ListOf(entries.a[pos[1]], pos[2]))
             /\ IsDispatchable(pos[2], ListOf(entries.a[pos[1]], pos[2])[pos[3]])}

CallsAt(pos) ==
    Len(SelectSeq(Invocations(req.trace),
                  LAMBDA x : <<x.e, x.list, x.j>> = pos))

\* the payload has only entries and events that are objects, and only lists
\* (or nothing) as messaging and changes
WellFormed(body) ==
    LET entries == PathGet(body, <<"entry">>) IN
    /\ IsArray(entries)
    /\ \A i \in 1..Len(entries.a) :
          /\ entries.a[i].t = "object"
          /\ \A list \in {"messaging", "changes"} :
                LET l == Prop(entries.a[i], list) IN
                /\ IsNullish(l) \/ IsArray(l)
                /\ IsArray(l) => \A j \in 1..Len(l.a) : l.a[j].t = "object"

\* the request passed the credential check and the discriminator check, and
\* the handlers were loaded
PassedChecks ==
    /\ IsPost
    /\ Reloaded
    /\ ~Logged("Skipping webhook event processing")
    /\ ~Logged("Failed to load message handlers")
    /\ PathGet(req.body, <<"object">>) = JStr("page")

AllHandlersReturn ==
    \A k \in 1..Len(req.trace) :
        req.trace[k].ev = "invoke" => req.trace[k].outcome = "returns"

\* C6: for a payload that passes the checks, every messaging event and every
\* change event of every entry is processed exactly once, also when an entry
\* or an event is null or a messaging/changes value is not a list (here with
\* handlers that all return).
C6_EveryEventOnce ==
    (PassedChecks /\ AllHandlersReturn) =>
        \A pos \in Dispatchable(req.body) : CallsAt(pos) = 1

\* C7: when the handler called for one event throws, or returns a result that
\* is later rejected, with an Error or any other value, every other event of
\* the payload is still dispatched exactly once; two messaging events and one
\* comment change give three handler calls whichever of them fails.
C7_HandlerFailureIsolated ==
    (PassedChecks /\ WellFormed(req.body)) =>
        /\ \A pos \in Dispatchable(req.body) : CallsAt(pos) = 1
        /\ req.body = BodyThree => Len(Invocations(req.trace)) = 3

\* the access token of the configuration reloaded for the request is present
\* and not empty
TokenPresent ==
    LET tok == PathGet(config, <<"facebook", "pageAccessToken">>) IN
    Reloaded /\ tok.t \notin {"undefined", "null"} /\ tok # JStr("")

C11_VerifyExceptionForbidden ==
    (IsGet /\ req.fault # "none") =>
        /\ Sends(req.trace) = <<Send(403, JStr("Forbidden"))>>
        /\ ~req.escaped

\* the verify token a fresh read of the settings file yields now
FileVerifyToken ==
    LET fresh == getConfig(disk) IN
    IF fresh.thrown THEN Undefined
    ELSE PathGet(fresh.val, <<"facebook", "verifyToken">>)

\* C12: a verification GET compares the supplied token with the verify token
\* that is in the settings file at the time of that GET: with mode
\* 'subscribe', a non-empty token in the file and a non-empty token supplied,
\* the GET succeeds exactly when the supplied token is the file's token (so
\* right after an outside edit the new token succeeds and the old one fails).
C12_VerifyReadsSettingsFile ==
    (/\ IsGet
     /\ req.fault = "none"
     /\ req.mode = JStr("subscribe")
     /\ FileVerifyToken.t = "string"
     /\ FileVerifyToken # JStr("")
     /\ req.token.t = "string"
     /\ req.token # JStr("")) =>
        (Sends(req.trace)[1].status = 200 <=> req.token = FileVerifyToken)

\* a handler of this request threw an Error synchronously
HandlerThrewError ==
    \E k \in 1..Len(req.trace) :
        req.trace[k].ev = "invoke" /\ req.trace[k].outcome = "throwsError"

\* a handler result was rejected with an Error and the rejection was handled
RejectionHandled ==
    /\ req.kind = "SETTLE"
    /\ req.trace[1].level = "error"

\* C13: whenever a message, postback or comment handler throws synchronously
\* or its asynchronous result fails, the last-error slot is afterwards set
\* to that failure's message.
C13_HandlerFailureRecorded ==
    ((IsPost /\ HandlerThrewError) \/ RejectionHandled) =>
        lastRuntimeError = JStr(HandlerErrMsg)

\* an exception was raised in the POST handler after the acknowledgment:
\* by the configuration reload, by the loading of the handler module, or by
\* the decomposition of the payload
RaisedAfterAck ==
    \/ \E k \in 1..Len(req.trace) : req.trace[k] = Reload(TRUE)
    \/ Logged("Failed to load message handlers")
    \/ Logged("Error processing webhook event")

\* C14: any exception raised in the POST handler after the acknowledgment is
\* caught inside the handler, logged and recorded in the last-error slot;
\* none propagates out of the handler.
C14_PostExceptionsContained ==
    (Handled /\ RaisedAfterAck) =>
        /\ ~req.escaped
        /\ \E k \in 1..Len(req.trace) :
              req.trace[k].ev = "log" /\ req.trace[k].level = "error"
        /\ \E k \in 1..Len(req.trace) :
              /\ req.trace[k].ev = "lastRuntimeError"
              /\ lastRuntimeError = JStr(req.trace[k].msg)

\* the request carried no body, a text that is not JSON, an empty object, or
\* an object that is not a page payload of entries with event lists
MalformedOrEmpty ==
    \/ ~req.parsed
    \/ IsNullish(req.body)
    \/ req.body = JObj(<<>>)
    \/ PathGet(req.body, <<"object">>) # JStr("page")
    \/ ~WellFormed(req.body)

\* C15: a POST with a malformed or empty body gets the fixed acknowledgment
\* and leaves the last-error slot as it was.
C15_MalformedBodyTolerated ==
    (IsPost /\ MalformedOrEmpty) =>
        /\ Sends(req.trace) = <<Send(200, JStr("EVENT_RECEIVED"))>>
        /\ lastRuntimeError = req.errBefore

ListRank(list) == IF list = "messaging" THEN 1 ELSE 2

\* x comes before y in the payload
PayloadOrder(x, y) ==
    \/ x.e < y.e
    \/ x.e = y.e /\ ListRank(x.list) < ListRank(y.list)
    \/ x.e = y.e /\ x.list = y.list /\ x.j < y.j

\* C16: within one payload the handler invocations are started in payload
\* order: entries in list order, within an entry its messaging events in
\* list order, then its change events in list order.
C16_DispatchInPayloadOrder ==
    IsPost =>
        LET inv == Invocations(req.trace) IN
        \A a \in 1..Len(inv), b \in 1..Len(inv) :
            a < b => PayloadOrder(inv[a], inv[b])

\* C16's case: a messaging event and a change of the first entry and an
\* event of the second entry were all dispatched
C16_Witness ==
    /\ IsPost
    /\ LET inv == Invocations(req.trace) IN
       /\ Len(inv) = 3
       /\ inv[1].list = "messaging" /\ inv[1].e = 1
       /\ inv[2].list = "changes" /\ inv[2].e = 1
       /\ inv[3].list = "messaging" /\ inv[3].e = 2

\* the message a request recorded last, if it recorded one
Recorded(r) ==
    LET set == SelectSeq(r.trace, LAMBDA x : x.ev = "lastRuntimeError") IN
    IF set = <<>> THEN Undefined ELSE JStr(set[Len(set)].msg)

\* C18: the last-error slot starts unset, holds nothing or one message, is
\* replaced by each newly recorded failure's message, is never cleared once
\* set, and is not changed by a /status read.
C18_LastErrorNeverCleared ==
    /\ lastRuntimeError = JNull
    /\ [](lastRuntimeError = JNull \/ lastRuntimeError.t = "string")
    /\ [][/\ lastRuntimeError # JNull => lastRuntimeError' # JNull
          /\ lastRuntimeError' # lastRuntimeError =>
                lastRuntimeError' = Recorded(req')
          /\ req'.kind = "STATUS" => lastRuntimeError' = lastRuntimeError]_vars

\* C18's case: /status reports a failure recorded earlier and leaves it set
C18_Witness ==
    /\ req.kind = "STATUS"
    /\ req.errBefore # JNull
    /\ lastRuntimeError = req.errBefore
    /\ Sends(req.trace) # <<>>
    /\ Prop(Sends(req.trace)[1].body, "lastError") = lastRuntimeError

\* no handler call of the request failed: each returned, some with a result
\* that never settles
NoHandlerFails ==
    \A k \in 1..Len(req.trace) :
        req.trace[k].ev = "invoke" =>
            req.trace[k].outcome \in {"returns", "neverSettles"}

\* C19: the dispatcher never waits for a handler: with handler results that
\* never settle, every dispatchable event of the payload is still dispatched
\* (once), the request's processing ends, and nothing is left for the
\* request to wait for.
C19_FireAndForget ==
    (PassedChecks /\ NoHandlerFails) =>
        /\ \A pos \in Dispatchable(req.body) : CallsAt(pos) = 1
        /\ ~req.escaped
        /\ lastRuntimeError = req.errBefore

\* the change the invocation x was made for, and its entry
EntryOf(x) == PathGet(req.body, <<"entry">>).a[x.e]
ChangeOf(x) == Prop(EntryOf(x), "changes").a[x.j]

Qualifies(change) ==
    /\ Prop(change, "field") = JStr("feed")
    /\ PathGet(change, <<"value", "item">>) = JStr("comment")
    /\ PathGet(change, <<"value", "verb">>) = JStr("add")

\* the payload holds nothing but change events, none of them null
OnlyChanges(body) ==
    /\ WellFormed(body)
    /\ \A i \in 1..Len(PathGet(body, <<"entry">>).a) :
          ListOf(PathGet(body, <<"entry">>).a[i], "messaging") = <<>>

\* C20: the comment handler is invoked for a change event only when its
\* field is 'feed', its value.item is 'comment' and its value.verb is 'add',
\* and it is then given the owning entry's id and the message, '' when the
\* change has none; a payload of other changes (other field, item or verb,
\* or no value) causes no invocation and no error.
C20_CommentChangesOnly ==
    IsPost =>
        /\ \A k \in 1..Len(req.trace) :
              (req.trace[k].ev = "invoke" /\ req.trace[k].list = "changes") =>
                  LET x == req.trace[k]
                      msg == PathGet(ChangeOf(x), <<"value", "message">>)
                  IN  /\ x.h = "handleComment"
                      /\ Qualifies(ChangeOf(x))
                      /\ x.args[2] = Prop(EntryOf(x), "id")
                      /\ Prop(x.args[1], "message") =
                             (IF Truthy(msg) THEN msg ELSE JStr(""))
        /\ (PassedChecks /\ OnlyChanges(req.body)) =>
              /\ \A pos \in (1..Len(IdxKeys)) \X {"changes"} \X (1..Len(IdxKeys)) :
                    CallsAt(pos) = (IF pos \in Dispatchable(req.body)
                                    THEN 1 ELSE 0)
              /\ \A k \in 1..Len(req.trace) : req.trace[k].ev # "log"
              /\ lastRuntimeError = req.errBefore
              /\ ~req.escaped

\* C20's case: a payload with a like, a change without value and a comment
\* with a message: only the comment reached the handler
C20_Witness ==
    /\ PassedChecks
    /\ req.body = BodyMixed
    /\ \E k \in 1..Len(req.trace) :
          /\ req.trace[k].ev = "invoke"
          /\ req.trace[k].h = "handleComment"
          /\ req.trace[k].j = 3
          /\ req.trace[k].args[2] = JStr("p1")
          /\ Prop(req.trace[k].args[1], "message") = JStr("nice")

\* the messaging event the invocation x was made for
EventOf(x) == Prop(EntryOf(x), "messaging").a[x.j]

\* C21: each messaging event leads to at most one handler invocation: the
\* message handler when it carries a message (also when it carries a postback
\* as well), the postback handler when it carries only a postback, none when
\* it carries neither; a payload whose handlers all return records no error.
C21_OneHandlerPerEvent ==
    IsPost =>
        /\ \A pos \in (1..Len(IdxKeys)) \X {"messaging"} \X (1..Len(IdxKeys)) :
              CallsAt(pos) <= 1
        /\ \A k \in 1..Len(req.trace) :
              (req.trace[k].ev = "invoke" /\ req.trace[k].list = "messaging") =>
                  LET x == req.trace[k] IN
                  IF Truthy(Prop(EventOf(x), "message"))
                  THEN /\ x.h = "handleMessage"
                       /\ x.args[1] = Prop(EventOf(x), "message")
                  ELSE /\ Truthy(Prop(EventOf(x), "postback"))
                       /\ x.h = "handlePostback"
                       /\ x.args[1] = Prop(EventOf(x), "postback")
        /\ (PassedChecks /\ WellFormed(req.body) /\ NoHandlerFails) =>
              /\ \A k \in 1..Len(req.trace) : req.trace[k].ev # "log"
              /\ lastRuntimeError = req.errBefore

\* C21's case: an event with a message and a postback, an event with neither
\* and an event with a postback only
C21_Witness ==
    /\ PassedChecks
    /\ req.body = BodyMixed
    /\ NoHandlerFails
    /\ CallsAt(<<1, "messaging", 1>>) = 1
    /\ CallsAt(<<1, "messaging", 2>>) = 0
    /\ CallsAt(<<2, "messaging", 1>>) = 1
    /\ Invocations(req.trace)[1].h = "handleMessage"
    /\ Invocations(req.trace)[3].h = "handlePostback"

----------------------------------------------------------------------------
(* safeConfig.js: the objects the module owns, and who else can reach them *)

\* loadConfigRaw hands out the module's own minimalTemplate object, not a
\* copy: when the file cannot be read, or its text does not parse
returnsTemplate(d) ==
    LET d1 == ensureConfigFile(d).disk
    IN  \/ ~(d1.file.exists /\ d1.canRead)
        \/ ~JSONParse(d1.file.text).ok

\* a value that is held by reference
IsReference(v) == v.t \in {"object", "array"}

\* a merge that assigns every key of the source, sections included
mergeDeepRefsAssign(source, prefix, keys) ==
    {Append(prefix, keys[i]) :
        i \in {j \in 1..Len(keys) : IsReference(Prop(source, keys[j]))}}

RECURSIVE mergeDeepRefs(_, _, _)

\* the key paths at which mergeDeep leaves in the target an object of the
\* source itself: plain objects are descended into and copied key by key,
\* everything else is assigned as it is
mergeDeepRefs(source, prefix, keys) ==
    IF keys = <<>> THEN {}
    ELSE LET key == Head(keys)
             sv == Prop(source, key)
             here == IF Truthy(sv) /\ TypeofObject(sv) /\ ~IsArray(sv)
                     THEN mergeDeepRefs(sv, Append(prefix, key), ObjectKeys(sv))
                     ELSE IF IsReference(sv)
                     THEN {Append(prefix, key)}
                     ELSE {}
         IN  here \cup mergeDeepRefs(source, prefix, Tail(keys))

\* const merged = JSON.parse(JSON.stringify(fallbackConfig)): a new object
mergeTarget(fb) == [val |-> JSONParse(Stringify(fb)).val, fresh |-> TRUE]

\* getConfig() on the module's objects sh: what it returns, the paths of the
\* result that are objects of minimalTemplate itself, and the fallbackConfig
\* it leaves
getConfigShared(d, sh) ==
    LET raw == loadConfigRaw(d)
        byRef == returnsTemplate(d)
        data == IF byRef THEN sh.minimalTemplate ELSE raw.data
        merged == mergeTarget(sh.fallbackConfig)
    IN  IF IsNullish(data)
        THEN [res |-> Thrown("getConfig", raw.eff), byRef |-> byRef,
              refs |-> {}, fallbackConfig |-> sh.fallbackConfig]
        ELSE LET val == MergeDeep(merged.val, data)
             IN  [res |-> Returned("getConfig", val, <<>>, raw.eff),
                  byRef |-> byRef,
                  refs |-> IF byRef
                           THEN mergeDeepRefs(data, <<>>, ObjectKeys(data))
                           ELSE {},
                  fallbackConfig |-> IF merged.fresh
                                     THEN sh.fallbackConfig
                                     ELSE val]

RECURSIVE SetPath(_, _, _)

\* v[k1][k2]... = val, for a path whose parent is an object or an array
SetPath(v, path, val) ==
    IF Len(path) = 1 THEN SetProp(v, Head(path), val)
    ELSE SetProp(v, Head(path), SetPath(Prop(v, Head(path)), Tail(path), val))

IsPathPrefix(p, q) == Len(p) <= Len(q) /\ SubSeq(q, 1, Len(p)) = p

\* what the caller of getConfig() may assign in the object it was given
HeldWrites ==
    { [path |-> <<"facebook", "verifyToken">>, val |-> JStr("changed")],
      [path |-> <<"app">>, val |-> JNull],
      [path |-> <<"security", "allowedDomains", "0">>, val |-> JStr("changed")] }

\* no first result on record
NoFirst == [disk |-> NoDisk, val |-> Undefined]

\* the settings files of this part: none, the template, a filled one, one
\* with an array for a section, the text null, a corrupt one
SharedTexts ==
    {Stringify(v) : v \in {minimalTemplate, DocFilled, DocSecurity, JNull}}
        \cup {<<Punct("{")>>}

SharedDisks ==
    [file : {NoFile} \cup {FileOf(t) : t \in SharedTexts}, bak : {NoFile},
     canRead : BOOLEAN, canWrite : BOOLEAN, canWriteBak : {TRUE}]

\* the module's objects as the module creates them; nothing handed out yet
InitShared ==
    /\ disk \in SharedDisks
    /\ disk.file.exists \/ disk.canRead
    /\ ret = NoCall
    /\ config = Undefined
    /\ lastRuntimeError = JNull
    /\ req = NoRequest
    /\ pending = <<>>
    /\ loop = NotFollowed
    /\ shared = [minimalTemplate |-> minimalTemplate,
                 fallbackConfig |-> fallbackConfig,
                 refs |-> {}, heldByRef |-> FALSE,
                 first |-> NoFirst, written |-> FALSE]

\* getConfig(): the caller keeps the object it returns.  first is the result
\* of the earliest load of the file as it is now
LoadShared ==
    /\ \E r \in {getConfigShared(disk, shared)} :
          \E renew \in {~r.res.thrown /\ (shared.first.val = Undefined
                                          \/ shared.first.disk # disk)} :
             /\ ret' = Observe(r.res)
             /\ disk' = r.res.eff.disk
             /\ config' = IF r.res.thrown THEN config ELSE r.res.val
             /\ shared' =
                   [shared EXCEPT
                      !.fallbackConfig = r.fallbackConfig,
                      !.refs = IF r.res.thrown THEN @ ELSE r.refs,
                      !.heldByRef = IF r.res.thrown THEN @ ELSE r.byRef,
                      !.first = IF renew
                                THEN [disk |-> r.res.eff.disk, val |-> r.res.val]
                                ELSE @,
                      !.written = IF renew THEN FALSE ELSE @]
    /\ UNCHANGED <<lastRuntimeError, req, pending, loop>>

\* the caller assigns into the object it holds; an object that is reached
\* through it is changed for everybody who reaches it
MutateHeld ==
    /\ config # Undefined
    /\ \E w \in HeldWrites :
          /\ IsReference(PathGet(config, SubSeq(w.path, 1, Len(w.path) - 1)))
          /\ config' = SetPath(config, w.path, w.val)
          /\ config' # config
          /\ shared' =
                [shared EXCEPT
                   !.minimalTemplate =
                       IF \E p \in shared.refs :
                             IsPathPrefix(p, w.path) /\ p # w.path
                       THEN SetPath(@, w.path, w.val)
                       ELSE @,
                   !.refs = {p \in @ : ~IsPathPrefix(w.path, p)},
                   !.written = @ \/ shared.heldByRef]
    /\ ret' = NoCall
    /\ UNCHANGED <<disk, lastRuntimeError, req, pending, loop>>

\* somebody edits, replaces or corrupts the settings file
SharedEdit ==
    \E t \in SharedTexts :
        /\ disk' = [disk EXCEPT !.file = FileOf(t)]
        /\ disk' # disk
        /\ ret' = NoCall
        /\ UNCHANGED <<config, lastRuntimeError, req, pending, shared, loop>>

\* the permissions of the settings file and of its directory change
SharedChmod ==
    \E r \in BOOLEAN, w \in BOOLEAN :
        /\ disk.file.exists \/ r
        /\ disk' = [disk EXCEPT !.canRead = r, !.canWrite = w]
        /\ disk' # disk
        /\ ret' = NoCall
        /\ UNCHANGED <<config, lastRuntimeError, req, pending, shared, loop>>

NextShared ==
    \/ LoadShared
    \/ CallGetMissingConfigKeys
    \/ MutateHeld
    \/ SharedEdit
    \/ OutsideDelete
    \/ SharedChmod

SpecShared == InitShared /\ [][NextShared]_vars

\* C22: getConfig() and getMissingConfigKeys() leave the module's
\* minimalTemplate and fallbackConfig objects as they were created, no object
\* handed to a caller reaches into them, and a getConfig() on the file an
\* earlier load left behind returns a value equal to that load's, whatever was
\* assigned in the objects returned in between and also when the loads fell
\* back to the template.
C22_IndependentSnapshots ==
    /\ shared.minimalTemplate = minimalTemplate
    /\ shared.fallbackConfig = fallbackConfig
    /\ shared.refs = {}
    /\ (ret.op = "getConfig" /\ shared.first.val # Undefined
            /\ ret.before = shared.first.disk) =>
          /\ ~ret.thrown
          /\ ret.val = shared.first.val
          /\ config = ret.val

\* a load that fell back to the template, after the object an earlier such
\* load returned was assigned into, returns the first value again
C22_Witness ==
    /\ ret.op = "getConfig"
    /\ ~ret.thrown
    /\ returnsTemplate(ret.before)
    /\ ret.before = shared.first.disk
    /\ shared.written
    /\ shared.heldByRef
    /\ ret.val = shared.first.val
    /\ shared.minimalTemplate = minimalTemplate

----------------------------------------------------------------------------
(* index.js on the event loop: POST requests one statement group at a time *)

\* the POST requests that are followed
MaxRequests == 2

\* the bodies of this part: three handler calls in one entry, calls spread
\* over two entries, and an event that makes the decomposition throw
LoopBodies == {BodyThree, BodyMixed, BodyNullEvent}

\* how the handler calls of a request end in this part
LoopOutcomes == {"returns", "rejectsError", "throwsNull"}

loopChoices ==
    [b \in LoopBodies |->
        {oc \in outcomeChoices[PayloadOf(Stringify(b))] :
            \A k \in DOMAIN oc : oc[k] \in LoopOutcomes}]

\* a route handler that waits for each handler result before it goes on
suspendsOnInvoke(ev) == ev.ev = "invoke"

\* whether the route handler gives the thread back to the event loop after
\* a step: it is a plain function without await, and the handler results
\* are only given a .catch callback
suspends(ev) == FALSE

NoLoop ==
    [begun |-> 0, tasks |-> <<>>, running |-> 0, started |-> <<>>,
     settled |-> <<>>]

InitLoop ==
    /\ \E d \in StartDisks :
          \E r \in {getConfig(d)} :
          /\ ~r.thrown
          /\ disk = r.eff.disk
          /\ config = r.val
    /\ lastRuntimeError = JNull
    /\ req = NoRequest
    /\ pending = <<>>
    /\ ret = NoCall
    /\ shared = NotFollowed
    /\ loop = NoLoop

\* the event loop takes a POST request when nothing is running: the route
\* handler acknowledges, reloads the configuration, and has the rest of its
\* statements before it
BeginPost ==
    /\ loop.running = 0
    /\ loop.begun < MaxRequests
    /\ \E r \in {getConfig(disk)}, b \in LoopBodies :
       \E oc \in loopChoices[b] :
       \E p \in {postWebhook(r, config, lastRuntimeError, b, TRUE, oc)} :
       \E rq \in {loop.begun + 1} :
       \E todo \in {SubSeq(p.trace, 3, Len(p.trace))} :
          /\ disk' = p.disk
          /\ config' = p.config
          /\ loop' = [loop EXCEPT
                        !.begun = rq,
                        !.tasks = IF todo = <<>> THEN @
                                  ELSE Append(@, [rq |-> rq, todo |-> todo,
                                                  snapshot |-> p.config]),
                        !.running = IF todo = <<>> THEN 0 ELSE rq]
    /\ UNCHANGED <<ret, lastRuntimeError, req, pending, shared>>

\* the next step of a route handler: of the one that is running, or, when
\* nothing is running, of one that had given the thread back
StepPost ==
    /\ \E t \in 1..Len(loop.tasks) :
       \E task \in {loop.tasks[t]} :
       \E ev \in {Head(task.todo)} :
          /\ loop.running \in {0, task.rq}
          /\ lastRuntimeError' = IF ev.ev = "lastRuntimeError"
                                 THEN JStr(ev.msg)
                                 ELSE lastRuntimeError
          /\ pending' = IF ev.ev = "invoke"
                           /\ ev.outcome \in {"rejectsError", "rejectsNull"}
                        THEN Append(pending, [rq |-> task.rq, h |-> ev.h,
                                              outcome |-> ev.outcome])
                        ELSE pending
          /\ loop' = [loop EXCEPT
                        !.started = IF ev.ev = "invoke"
                                    THEN Append(@, [rq |-> task.rq, h |-> ev.h])
                                    ELSE @,
                        !.tasks = IF Len(task.todo) = 1
                                  THEN SubSeq(@, 1, t - 1)
                                       \o SubSeq(@, t + 1, Len(@))
                                  ELSE [@ EXCEPT ![t].todo = Tail(task.todo)],
                        !.running = IF Len(task.todo) = 1 \/ suspends(ev)
                                    THEN 0
                                    ELSE task.rq]
    /\ UNCHANGED <<disk, ret, config, req, shared>>

\* a handler result is rejected and its .catch callback runs, when nothing
\* else is running
SettleLoop ==
    /\ loop.running = 0
    /\ \E k \in 1..Len(pending) :
          /\ pending' = SubSeq(pending, 1, k - 1)
                        \o SubSeq(pending, k + 1, Len(pending))
          /\ loop' = [loop EXCEPT !.settled = Append(@, pending[k].rq)]
    /\ UNCHANGED <<disk, ret, config, lastRuntimeError, req, shared>>

\* somebody edits the settings file, at any moment
LoopEdit ==
    /\ \E t \in {Stringify(DocFilled), Stringify(DocRotated)} :
          /\ disk' = [disk EXCEPT !.file = FileOf(t)]
          /\ disk' # disk
    /\ UNCHANGED <<ret, config, lastRuntimeError, req, pending, shared, loop>>

NextLoop ==
    \/ BeginPost
    \/ StepPost
    \/ SettleLoop
    \/ LoopEdit

SpecLoop == InitLoop /\ [][NextLoop]_vars

StartedOf(rq) == SelectSeq(loop.started, LAMBDA x : x.rq = rq)

=============================================================================
